---- MODULE Spec2Model ----
(***************************************************************************)
(* Region-of-interest (ROI) parameter fitting, roi_parameter_fitting.ipynb *)
(* (Burn 1990): the distance kernel, the weighting function, the           *)
(* probability weighted moments and the grid driver roi().                 *)
(*                                                                         *)
(* Numbers.  A float is modelled exactly:                                  *)
(*   [k |-> "num", n, d]   the rational n/d in lowest terms, d > 0         *)
(*   [k |-> "inf", n, d]   +inf (n = 1) or -inf (n = -1)                   *)
(*   [k |-> "nan", ...]    numpy's nan                                     *)
(* A distance is [sq |-> s], the non-negative square root of the integer   *)
(* s, and a weight is [k |-> "num", a, b, rad, den], the real number       *)
(* (a + b * sqrt(rad)) / den with den > 0, so that signs and comparisons   *)
(* of weights are decided exactly.  Rounding of IEEE doubles is not        *)
(* modelled.  A nansum is kept as the formal sum of its non-nan terms (a   *)
(* function from the contributing window offsets to the terms), a product  *)
(* as the record of its factors, and g, alpha, xi as the formulas of       *)
(* lines 190-193 applied to the pooled ratios T1, T2; the domain errors    *)
(* math.gamma can raise on line 192 are outside the model.                 *)
(***************************************************************************)
EXTENDS Integers, Sequences, FiniteSets, TLC

\* ---------------------------------------------------------------- bounds
\* window sizes -1 .. MaxRoi are run on the small grids
MaxRoi == 3
\* grids have 1 .. MaxDim rows and columns
MaxDim == 2
\* short inputs hold 1 .. MaxYears years
MaxYears == 2
\* rainfall values are 0 .. MaxVal
MaxVal == 1
\* window sizes MaxRoi+1 .. MaxKernelRoi are run on a single-cell grid
MaxKernelRoi == 39

\* ------------------------------------------------------ program constants
\* nc = nc[:20, :, :]
YearCap == 20
\* weighting_f(distance_array, 1, 26)
WeightN == 1
WeightTp == 26

\* ---------------------------------------------------------------- floats
Abs(i) == IF i < 0 THEN -i ELSE i

Sgn(i) == IF i > 0 THEN 1 ELSE IF i < 0 THEN -1 ELSE 0

RECURSIVE GCD(_, _)
GCD(a, b) == IF b = 0 THEN a ELSE GCD(b, a % b)

NaN == [k |-> "nan", n |-> 0, d |-> 1]

Inf(s) == [k |-> "inf", n |-> s, d |-> 1]

\* n/d in lowest terms (d > 0)
Rat(n, d) ==
    LET g == GCD(Abs(n), d)
    IN  [k |-> "num", n |-> n \div g, d |-> d \div g]

Num(i) == Rat(i, 1)

IsNaN(x) == x.k = "nan"

RatAdd(x, y) ==
    LET g == GCD(x.d, y.d)
        l == (x.d \div g) * y.d
    IN  Rat(x.n * (l \div x.d) + y.n * (l \div y.d), l)

RatMul(x, y) ==
    LET g1 == GCD(Abs(x.n), y.d)
        g2 == GCD(Abs(y.n), x.d)
    IN  Rat((x.n \div g1) * (y.n \div g2), (x.d \div g2) * (y.d \div g1))

RECURSIVE RatPow(_, _)
RatPow(x, i) == IF i = 0 THEN Num(1) ELSE RatMul(x, RatPow(x, i - 1))

RatLeq(x, y) == x.n * y.d <= y.n * x.d

\* numpy's elementwise x / y on finite x, y:  0/0 is nan, x/0 is +-inf
FloatDiv(x, y) ==
    IF IsNaN(x) \/ IsNaN(y) THEN NaN
    ELSE IF y.n = 0 THEN (IF x.n = 0 THEN NaN ELSE Inf(Sgn(x.n)))
    ELSE LET s  == Sgn(y.n)
             g1 == GCD(Abs(x.n), Abs(y.n))
             g2 == GCD(x.d, y.d)
         IN  Rat(s * (x.n \div g1) * (y.d \div g2),
                 (x.d \div g2) * (Abs(y.n) \div g1))

\* f itself, held as an enumerated function: a function written [x \in S |-> e]
\* is re-evaluated by TLC at every application, an enumerated one is looked up
Strict(f) == f @@ <<>>

\* x + y: nan if either is nan
FloatAdd(x, y) == IF IsNaN(x) \/ IsNaN(y) THEN NaN ELSE RatAdd(x, y)

\* sum(s) of a sequence of floats (exact, so the order of the additions does
\* not matter; halving keeps the evaluation shallow)
RECURSIVE SumRange(_, _, _)
SumRange(s, lo, hi) ==
    IF lo > hi THEN Num(0)
    ELSE IF lo = hi THEN s[lo]
    ELSE LET mid == (lo + hi) \div 2
         IN  FloatAdd(SumRange(s, lo, mid), SumRange(s, mid + 1, hi))

SeqSum(s) == SumRange(s, 1, Len(s))

\* any(np.isnan(x)) for a 1-D series x
AnyNaN(s) == \E j \in 1..Len(s) : IsNaN(s[j])

\* ---------------------------------------------------------- weighting_f
RECURSIVE IntPow(_, _)
IntPow(b, e) == IF e = 0 THEN 1 ELSE b * IntPow(b, e - 1)

\* weighting_f with the scale forgotten: mu = 1 - d
WeightNoScale(d, n, tp) ==
    [k |-> "num", a |-> 1, b |-> -1, rad |-> d.sq, den |-> 1]

\* mu = 1 - (d / tp) ** n  for one distance d = sqrt(d.sq), n a natural number
weighting_f(d, n, tp) ==
    IF n % 2 = 0
    THEN [k |-> "num", a |-> IntPow(tp, n) - IntPow(d.sq, n \div 2),
          b |-> 0, rad |-> 1, den |-> IntPow(tp, n)]
    ELSE [k |-> "num", a |-> IntPow(tp, n),
          b |-> -IntPow(d.sq, (n - 1) \div 2), rad |-> d.sq,
          den |-> IntPow(tp, n)]

\* the sign of a + b * sqrt(rad)
SurdSign(a, b, rad) ==
    IF b = 0 \/ rad = 0 THEN Sgn(a)
    ELSE IF a = 0 THEN Sgn(b)
    ELSE IF Sgn(a) = Sgn(b) THEN Sgn(a)
    ELSE Sgn(a) * Sgn(a * a - b * b * rad)

\* ------------------------------------------------------------------ PWM
\* sorted(x) for a sequence of finite floats: the element of x at sorted
\* position j is the one with j - 1 elements before it in the stable order
Rank(x, i) ==
    Cardinality({l \in 1..Len(x) :
        \/ ~RatLeq(x[i], x[l])
        \/ (RatLeq(x[l], x[i]) /\ RatLeq(x[i], x[l]) /\ l < i)}) + 1

sorted(x) ==
    LET xv == Strict(x)
        rank == Strict([i \in 1..Len(xv) |-> Rank(xv, i)])
    IN  [j \in 1..Len(xv) |-> xv[CHOOSE i \in 1..Len(xv) : rank[i] = j]]

\* the plotting position without its offset: (j / len(x)) ** i
PlotPosNoOffset(j, len, i) == RatPow(Rat(j, len), i)

\* ((j - 0.35) / len(x)) ** i
PlotPos(j, len, i) == RatPow(Rat(100 * j - 35, 100 * len), i)

\* PWM(x): the moments list [m0, m1, m2] (a sequence, moments[1] is m0)
PWM(x) ==
    LET xs == Strict(sorted(x))
        len == Len(xs)
        mr(i) == RatMul(Rat(1, len),
                        SeqSum([j \in 1..len |-> RatMul(PlotPos(j, len, i), xs[j])]))
    IN  <<mr(0), mr(1), mr(2)>>

\* ------------------------------------------------------------------ dist
\* dist with dy forgotten
distNoDy(p1, p2) ==
    LET dx == p2[1] - p1[1]
    IN  [sq |-> dx * dx]

\* d = (dy ** 2 + dx ** 2) ** 0.5
dist(p1, p2) ==
    LET dx == p2[1] - p1[1]
        dy == p2[2] - p1[2]
    IN  [sq |-> dy * dy + dx * dx]

\* --------------------------------------------------------------- arrays
\* A 3-D array is [shape |-> <<T, R, C>>, at |-> [<<t, i, j>> |-> float]],
\* indices from 0.
Indices(shape) ==
    (0..(shape[1] - 1)) \X (0..(shape[2] - 1)) \X (0..(shape[3] - 1))

Min(a, b) == IF a <= b THEN a ELSE b

Max(a, b) == IF a >= b THEN a ELSE b

\* nc[lo:hi, :, :]  (0 <= lo, 0 <= hi)
SliceTime(nc, lo, hi) ==
    LET shape == <<Max(Min(hi, nc.shape[1]) - lo, 0), nc.shape[2], nc.shape[3]>>
    IN  [shape |-> shape,
         at |-> [p \in Indices(shape) |-> nc.at[<<p[1] + lo, p[2], p[3]>>]]]

\* nc[:20, :, :]
FirstYears(nc) == SliceTime(nc, 0, YearCap)

\* np.pad(nc, center, 'constant', constant_values=np.nan): every axis, the
\* time axis too, gets center nan entries before and after
Pad(nc, center) ==
    LET shape == <<nc.shape[1] + 2 * center, nc.shape[2] + 2 * center,
                   nc.shape[3] + 2 * center>>
        q(p) == <<p[1] - center, p[2] - center, p[3] - center>>
    IN  [shape |-> shape,
         at |-> [p \in Indices(shape) |->
                    IF q(p) \in Indices(nc.shape) THEN nc.at[q(p)] ELSE NaN]]

\* the pads of the time axis removed at its head only: nc[center:, :, :]
StripTimePadsKeepTail(nc, center) == SliceTime(nc, center, nc.shape[1])

\* nc[center:nc.shape[0] - center, :, :]
StripTimePads(nc, center) == SliceTime(nc, center, nc.shape[1] - center)

\* np.lib.stride_tricks.sliding_window_view(nc, (w, w), axis=(1, 2)): a view,
\* entry [t, row, col, m, n] is nc[t, row + m, col + n]
sliding_window_view(nc, w) ==
    [shape |-> <<nc.shape[1], nc.shape[2] - w + 1, nc.shape[3] - w + 1, w, w>>,
     base |-> nc]

ViewAt(view, t, row, col, m, n) == view.base.at[<<t, row + m, col + n>>]

\* lines 126-145: the view roi builds from one file's array
LoadView(array, size, c) ==
    sliding_window_view(StripTimePads(Pad(FirstYears(array), c), c), size)

Offsets(size) == (0..(size - 1)) \X (0..(size - 1))

\* r = nc[:, row, col, :, :]; r[o] is the series r[:, o[1], o[2]]
Window(view, rw, cl) ==
    [o \in Offsets(view.shape[4]) |->
        [t \in 1..view.shape[1] |-> ViewAt(view, t - 1, rw, cl, o[1], o[2])]]

\* ------------------------------------------------------------- dictionaries
None == [k |-> "None"]

Unset == [k |-> "unset"]

\* a file name is known by its first two characters, two decimal digits
IntOf(file) == 10 * file[1] + file[2]

\* the key int(file[:2])
IntKey(file) == [kind |-> "int", v |-> <<IntOf(file)>>]

\* the key file[:2]
StrKey(file) == [kind |-> "str", v |-> file]

Range(s) == {s[i] : i \in 1..Len(s)}

\* dict.fromkeys(sorted(durations))
fromkeys(fs) == [key \in {IntKey(f) : f \in Range(fs)} |-> None]

\* d[key] = v
DictSet(d, key, v) ==
    [q \in DOMAIN d \cup {key} |-> IF q = key THEN v ELSE d[q]]

\* ------------------------------------------------------------ the cell fit
\* the gate with all for any: all(np.isnan(r[:, center, center]))
CenterAllMissing(r, c) == \A j \in 1..Len(r[<<c, c>>]) : IsNaN(r[<<c, c>>][j])

\* any(np.isnan(r[:, center, center]))
CenterHasMissing(r, c) == AnyNaN(r[<<c, c>>])

\* weighting_f applied to an array, elementwise
GridWeights(distance, n, tp) ==
    [o \in DOMAIN distance |-> weighting_f(distance[o], n, tp)]

\* the weights computed once, before the cell loop, and then reused
LoopWeightsHoisted(distance, previous) ==
    IF previous = Unset THEN GridWeights(distance, WeightN, WeightTp)
    ELSE previous

\* line 159, inside the cell loop: weight_dist = weighting_f(distance_array, 1, 26)
LoopWeights(distance, previous) == GridWeights(distance, WeightN, WeightTp)

\* lines 169-182: the moments of every window offset
PwmGrid(r) ==
    [o \in DOMAIN r |-> IF AnyNaN(r[o]) THEN <<NaN, NaN, NaN>> ELSE PWM(r[o])]

\* lines 171-176: weight_dist[m, n] = np.nan at the incomplete offsets
MarkedWeights(r, weights) ==
    [o \in DOMAIN r |-> IF AnyNaN(r[o]) THEN NaN ELSE weights[o]]

\* t1 = pwm_grid[1] / pwm_grid[0],  t2 = pwm_grid[2] / pwm_grid[0]
Ratio(pwm, i) == [o \in DOMAIN pwm |-> FloatDiv(pwm[o][i + 1], pwm[o][1])]

\* t * r.shape[0] * weight_dist, elementwise (nan if a factor is nan)
Weighted(t, len, weights) ==
    [o \in DOMAIN t |->
        IF IsNaN(t[o]) \/ IsNaN(weights[o]) THEN NaN
        ELSE [k |-> "prod", t |-> t[o], len |-> len, w |-> weights[o]]]

\* r.shape[0] * weight_dist, elementwise
Scaled(len, weights) ==
    [o \in DOMAIN weights |->
        IF IsNaN(weights[o]) THEN NaN
        ELSE [k |-> "prod", t |-> Num(1), len |-> len, w |-> weights[o]]]

\* np.nansum(a): the sum of the entries that are not nan
nansum(a) == [o \in {q \in DOMAIN a : ~IsNaN(a[q])} |-> a[o]]

\* line 187 / 188
Pooled(t, len, weights) ==
    [k |-> "quot", num |-> nansum(Strict(Weighted(t, len, weights))),
     den |-> nansum(Strict(Scaled(len, weights)))]

\* lines 190-193 as functions of the pooled ratios
ParamG(t1, t2) == [k |-> "g", T1 |-> t1, T2 |-> t2]

ParamAlpha(t1, t2) == [k |-> "alpha", T1 |-> t1, T2 |-> t2]

ParamXi(t1, t2) == [k |-> "xi", T1 |-> t1, T2 |-> t2]

\* the mean of the window's first series: r[:, 0, 0].mean()
CornerMean(r, c) ==
    FloatDiv(SeqSum(r[<<0, 0>>]), Num(Len(r[<<0, 0>>])))

\* r[:, center, center].mean()
CenterMean(r, c) ==
    FloatDiv(SeqSum(r[<<c, c>>]), Num(Len(r[<<c, c>>])))

\* lines 167-200 for one window r and the weights of line 159
FitCell(r, weights, c) ==
    LET pwm == Strict(PwmGrid(r))
        wd  == Strict(MarkedWeights(r, weights))
        len == Len(r[<<c, c>>])
        t1  == Pooled(Strict(Ratio(pwm, 1)), len, wd)
        t2  == Pooled(Strict(Ratio(pwm, 2)), len, wd)
    IN  [pwm_grid |-> pwm, weight_dist |-> wd, T1 |-> t1, T2 |-> t2,
         g |-> ParamG(t1, t2), xi |-> ParamXi(t1, t2),
         alpha |-> ParamAlpha(t1, t2), m0 |-> CenterMean(r, c)]

\* ---------------------------------------------------------------- inputs
Values == 0..MaxVal

Floats == {Num(v) : v \in Values} \cup {NaN}

\* os.listdir: the names in any order
FileNames == {<<0, 1>>, <<2, 4>>}

FileLists ==
    {<<>>} \cup {<<f>> : f \in FileNames}
           \cup {l \in FileNames \X FileNames : l[1] # l[2]}

\* a grid whose cells all hold the constant series of value bg, except cell
\* (0, 0), which holds the series sp
Grid(T, R, C, bg, sp) ==
    [shape |-> <<T, R, C>>,
     at |-> [p \in Indices(<<T, R, C>>) |->
                IF p[2] = 0 /\ p[3] = 0 THEN sp[p[1] + 1] ELSE Num(bg)]]

Constant(T, v) == [t \in 1..T |-> Num(v)]

\* the first file listed holds Grid(.., sp), the others the constant grid
Directory(listing, T, R, C, bg, sp) ==
    [listing |-> listing,
     data |-> [f \in Range(listing) |->
                 IF f = listing[1] THEN Grid(T, R, C, bg, sp)
                 ELSE Grid(T, R, C, bg, Constant(T, bg))]]

Dims == 1..MaxDim

\* one file of short series on small grids, every window size from -1 on;
\* the background is the largest value, cell (0, 0) holds any series
GridInputsOf(T) ==
    {[roi_size |-> s, dir |-> Directory(<<f>>, T, R, C, bg, sp)] :
        s \in {-1} \cup (0..MaxRoi), f \in {<<0, 1>>}, R \in Dims, C \in Dims,
        bg \in {MaxVal}, sp \in [1..T -> Floats]}

GridInputs == UNION {GridInputsOf(T) : T \in 1..MaxYears}

\* every listing of the directory, one year on a single row of cells
ListingInputs ==
    {[roi_size |-> s, dir |-> Directory(l, 1, 1, C, bg, sp)] :
        s \in 1..MaxRoi, l \in FileLists, C \in Dims,
        bg \in Values, sp \in [1..1 -> Floats]}

\* one file of YearCap + 1 years on a single row of cells: cell (0, 0) holds
\* a constant series with its first or its last year replaced
LongYears == YearCap + 1

LongSeries ==
    {[t \in 1..LongYears |-> IF t = pos THEN w ELSE Num(v)] :
        v \in Values, w \in Floats, pos \in {1, LongYears}}

LongInputs ==
    {[roi_size |-> s, dir |-> Directory(<<f>>, LongYears, 1, C, bg, sp)] :
        s \in {1, 3}, f \in {<<0, 1>>}, C \in Dims,
        bg \in Values, sp \in LongSeries}

\* the larger windows, the notebook's roi_size = 19 among them, on one cell
KernelInputs ==
    {[roi_size |-> s, dir |-> Directory(<<f>>, 1, 1, 1, 0, sp)] :
        s \in (MaxRoi + 1)..MaxKernelRoi, f \in {<<0, 1>>},
        sp \in {<<Num(1)>>}}

Inputs == GridInputs \cup ListingInputs \cup LongInputs \cup KernelInputs

\* ----------------------------------------------------------------- state
VARIABLES
    roi_size,        \* argument: the window size
    yearmax_path,    \* argument: the directory, its listing and its files
    pc,              \* "entry", "dist", "files", "cell", "fit", "done", "raised"
    center, files, parms_dict, distance_array,
    drow, dcol,      \* lines 119-120: the next entry of distance_array
    fidx,            \* line 123: the position of file in files
    nc, g_store, xi_store, alpha_store, m0_store,
    row, col,        \* lines 157-158: the cell of the current iteration
    weight_dist, pwm_grid, T1, T2,
    ret              \* the returned dictionary

vars == <<roi_size, yearmax_path, pc, center, files, parms_dict,
          distance_array, drow, dcol, fidx, nc, g_store, xi_store,
          alpha_store, m0_store, row, col, weight_dist, pwm_grid, T1, T2, ret>>

Init ==
    /\ \E in \in Inputs : roi_size = in.roi_size /\ yearmax_path = in.dir
    /\ pc = "entry"
    /\ center = Unset /\ files = Unset /\ parms_dict = Unset
    /\ distance_array = Unset /\ drow = 0 /\ dcol = 0 /\ fidx = 0
    /\ nc = Unset /\ g_store = Unset /\ xi_store = Unset
    /\ alpha_store = Unset /\ m0_store = Unset
    /\ row = 0 /\ col = -1
    /\ weight_dist = Unset /\ pwm_grid = Unset /\ T1 = Unset /\ T2 = Unset
    /\ ret = Unset

\* lines 111-117.  np.zeros((roi_size, roi_size)) raises ValueError for a
\* negative roi_size
Enter ==
    /\ pc = "entry"
    /\ center' = roi_size \div 2
    /\ files' = yearmax_path.listing
    /\ parms_dict' = fromkeys(yearmax_path.listing)
    /\ IF roi_size < 0
       THEN /\ pc' = "raised"
            /\ UNCHANGED distance_array
       ELSE /\ distance_array' = [o \in Offsets(roi_size) |-> [sq |-> 0]]
            /\ pc' = IF roi_size = 0 THEN "files" ELSE "dist"
    /\ fidx' = 1
    /\ UNCHANGED <<roi_size, yearmax_path, drow, dcol, nc, g_store, xi_store,
                   alpha_store, m0_store, row, col, weight_dist, pwm_grid,
                   T1, T2, ret>>

\* lines 119-121, one entry of the distance array
DistStep ==
    /\ pc = "dist"
    /\ distance_array' =
         [distance_array EXCEPT
            ![<<drow, dcol>>] = dist(<<center, center>>, <<drow, dcol>>)]
    /\ IF dcol + 1 < roi_size
       THEN drow' = drow /\ dcol' = dcol + 1 /\ pc' = "dist"
       ELSE /\ drow' = drow + 1 /\ dcol' = 0
            /\ pc' = IF drow + 1 < roi_size THEN "dist" ELSE "files"
    /\ UNCHANGED <<roi_size, yearmax_path, center, files, parms_dict, fidx,
                   nc, g_store, xi_store, alpha_store, m0_store, row, col,
                   weight_dist, pwm_grid, T1, T2, ret>>

NanGrid(rows, cols) ==
    [p \in (0..(rows - 1)) \X (0..(cols - 1)) |-> NaN]

\* lines 123-155: open the next file, cut, pad, build the view and the stores
LoadFile ==
    /\ pc = "files"
    /\ fidx <= Len(files)
    /\ LET view == LoadView(yearmax_path.data[files[fidx]], roi_size, center)
       IN  /\ nc' = view
           /\ g_store' = NanGrid(view.shape[2], view.shape[3])
           /\ xi_store' = NanGrid(view.shape[2], view.shape[3])
           /\ alpha_store' = NanGrid(view.shape[2], view.shape[3])
           /\ m0_store' = NanGrid(view.shape[2], view.shape[3])
    /\ row' = 0 /\ col' = -1
    /\ pc' = "cell"
    /\ UNCHANGED <<roi_size, yearmax_path, center, files, parms_dict,
                   distance_array, drow, dcol, fidx, weight_dist, pwm_grid,
                   T1, T2, ret>>

HasNextCell == col + 1 < nc.shape[3] \/ row + 1 < nc.shape[2]

NextCell == IF col + 1 < nc.shape[3] THEN <<row, col + 1>> ELSE <<row + 1, 0>>

\* lines 157-164: the next cell, its weights, its window and the gate.
\* r[:, center, center] raises IndexError when the window has no entry
\* [center, center] (roi_size = 0)
CellGate ==
    /\ pc = "cell"
    /\ HasNextCell
    /\ row' = NextCell[1] /\ col' = NextCell[2]
    /\ weight_dist' = LoopWeights(distance_array, weight_dist)
    /\ IF center >= roi_size
       THEN pc' = "raised"
       ELSE IF CenterHasMissing(Window(nc, NextCell[1], NextCell[2]), center)
            THEN pc' = "cell"
            ELSE pc' = "fit"
    /\ UNCHANGED <<roi_size, yearmax_path, center, files, parms_dict,
                   distance_array, drow, dcol, fidx, nc, g_store, xi_store,
                   alpha_store, m0_store, pwm_grid, T1, T2, ret>>

\* lines 166-200: the fit of the current cell
CellFit ==
    /\ pc = "fit"
    /\ LET fit == FitCell(Window(nc, row, col), weight_dist, center)
       IN  /\ pwm_grid' = fit.pwm_grid
           /\ weight_dist' = fit.weight_dist
           /\ T1' = fit.T1
           /\ T2' = fit.T2
           /\ g_store' = [g_store EXCEPT ![<<row, col>>] = fit.g]
           /\ xi_store' = [xi_store EXCEPT ![<<row, col>>] = fit.xi]
           /\ alpha_store' = [alpha_store EXCEPT ![<<row, col>>] = fit.alpha]
           /\ m0_store' = [m0_store EXCEPT ![<<row, col>>] = fit.m0]
    /\ pc' = "cell"
    /\ UNCHANGED <<roi_size, yearmax_path, center, files, parms_dict,
                   distance_array, drow, dcol, fidx, nc, row, col, ret>>

\* lines 215-221, after the last cell: parms_dict[file[:2]] = res
StoreResult ==
    /\ pc = "cell"
    /\ ~HasNextCell
    /\ parms_dict' =
         DictSet(parms_dict, StrKey(files[fidx]),
                 [g |-> g_store, xi |-> xi_store, alpha |-> alpha_store,
                  m0 |-> m0_store])
    /\ fidx' = fidx + 1
    /\ pc' = "files"
    /\ UNCHANGED <<roi_size, yearmax_path, center, files, distance_array,
                   drow, dcol, nc, g_store, xi_store, alpha_store, m0_store,
                   row, col, weight_dist, pwm_grid, T1, T2, ret>>

\* line 223
Return ==
    /\ pc = "files"
    /\ fidx > Len(files)
    /\ ret' = parms_dict
    /\ pc' = "done"
    /\ UNCHANGED <<roi_size, yearmax_path, center, files, parms_dict,
                   distance_array, drow, dcol, fidx, nc, g_store, xi_store,
                   alpha_store, m0_store, row, col, weight_dist, pwm_grid,
                   T1, T2>>

Next ==
    \/ Enter
    \/ DistStep
    \/ LoadFile
    \/ CellGate
    \/ CellFit
    \/ StoreResult
    \/ Return

Spec == Init /\ [][Next]_vars

\* ------------------------------------------------------- claim vocabulary
\* the array stored in file f
InputArray(f) == yearmax_path.data[f]

\* the series of cell (i, j) of a 3-D array, year by year
SeriesOf(array, i, j) ==
    [t \in 1..array.shape[1] |-> array.at[<<t - 1, i, j>>]]

Complete(series) == \A t \in 1..Len(series) : ~IsNaN(series[t])

Mean(series) == FloatDiv(SeqSum(series), Num(Len(series)))

IsConstant(series, v) == \A t \in 1..Len(series) : series[t] = Num(v)

\* the files whose result has been stored in parms_dict
Stored == {f \in Range(files) : StrKey(f) \in DOMAIN parms_dict}

GridCells(grid) == DOMAIN grid

OddSize == roi_size >= 1 /\ roi_size % 2 = 1

\* the loop has just fitted cell (row, col): pwm_grid, weight_dist, T1 and T2
\* are those of this cell
JustFitted ==
    /\ pc = "cell"
    /\ col >= 0
    /\ g_store[<<row, col>>].k = "g"

\* ------------------------------------------------------------------- C1
\* C1: a cell whose window's center series r[:, center, center] holds a
\* missing value has the missing sentinel in all four stored grids g, xi,
\* alpha and m0, whatever the other offsets of its window hold.
C1_GatedCellsAreMissing ==
    pc \in {"files", "done"} =>
        \A f \in Stored :
            LET view == LoadView(InputArray(f), roi_size, center)
                res == parms_dict[StrKey(f)]
            IN  \A p \in GridCells(res.g) :
                    (\E t \in 0..(view.shape[1] - 1) :
                        IsNaN(ViewAt(view, t, p[1], p[2], center, center)))
                    => /\ res.g[p] = NaN
                       /\ res.xi[p] = NaN
                       /\ res.alpha[p] = NaN
                       /\ res.m0[p] = NaN

\* a run has returned grids in which a cell with an incomplete own series is
\* missing although a neighbour in its window holds a complete series
C1_Witness ==
    /\ pc = "done"
    /\ roi_size = 3
    /\ \E f \in Stored :
          LET view == LoadView(InputArray(f), roi_size, center)
              res == ret[StrKey(f)]
          IN  \E p \in GridCells(res.g) :
                /\ AnyNaN(Window(view, p[1], p[2])[<<center, center>>])
                /\ ~Complete(Window(view, p[1], p[2])[<<center, center>>])
                /\ \E o \in Offsets(roi_size) :
                      Complete(Window(view, p[1], p[2])[o])
                /\ res.g[p] = NaN

\* ------------------------------------------------------------------- C2
\* C2: the returned mapping has exactly one key per input duration and every
\* key maps to a record of the four grids g, xi, alpha, m0.
C2_OneRecordPerDuration ==
    pc = "done" =>
        /\ Cardinality(DOMAIN ret) = Cardinality({IntOf(f) : f \in Range(files)})
        /\ \A key \in DOMAIN ret :
              /\ ret[key] # None
              /\ DOMAIN ret[key] = {"g", "xi", "alpha", "m0"}

\* ------------------------------------------------------------------- C3
\* C3: a roi_size that is even or not positive is rejected before any
\* distance matrix is built, any input loaded or any cell fitted, and no
\* output grid is produced for it.
C3_BadSizeRejected ==
    (roi_size <= 0 \/ roi_size % 2 = 0) =>
        /\ pc \in {"entry", "raised"}
        /\ distance_array = Unset
        /\ nc = Unset
        /\ g_store = Unset
        /\ ret = Unset

\* ------------------------------------------------------------------- C4
\* C4 as stated: PWM of a constant sequence [k, ..., k] of length N >= 1 is
\* (k, 0, 0).
C4_ConstantGivesK00 ==
    JustFitted =>
        \A o \in Offsets(roi_size) : \A v \in Values :
            IsConstant(Window(nc, row, col)[o], v)
            => pwm_grid[o] = <<Num(v), Num(0), Num(0)>>

\* C4 amended: PWM of a constant sequence [k, ..., k] of length N >= 1 is
\* (k, k (10 N + 3) / (20 N), k (400 N^2 + 180 N - 73) / (1200 N^2)): m0 is k,
\* and m1, m2 are zero only when k is zero.
C4_ConstantMoments ==
    JustFitted =>
        \A o \in Offsets(roi_size) : \A v \in Values :
            LET N == Len(Window(nc, row, col)[o])
            IN  IsConstant(Window(nc, row, col)[o], v)
                => /\ pwm_grid[o] =
                        <<Num(v), Rat(v * (10 * N + 3), 20 * N),
                          Rat(v * (400 * N * N + 180 * N - 73), 1200 * N * N)>>
                   /\ (pwm_grid[o][2] = Num(0) <=> v = 0)
                   /\ (pwm_grid[o][3] = Num(0) <=> v = 0)

\* PWM has been applied to a constant non-zero series of at least two years
C4_Witness ==
    /\ JustFitted
    /\ nc.shape[1] >= 2
    /\ \E o \in Offsets(roi_size) : \E v \in Values \ {0} :
          /\ IsConstant(Window(nc, row, col)[o], v)
          /\ pwm_grid[o][1] = Num(v)

\* ------------------------------------------------------------------- C5
\* C5 as stated: for a cell whose own series has no missing value, the stored
\* m0 is the mean of that series over every year of the duration's input
\* array.
C5_MeanOverAllYears ==
    pc = "done" =>
        \A f \in Stored :
            LET a == InputArray(f)
                res == ret[StrKey(f)]
            IN  \A p \in (0..(a.shape[2] - 1)) \X (0..(a.shape[3] - 1)) :
                    Complete(SeriesOf(a, p[1], p[2]))
                    => res.m0[p] = Mean(SeriesOf(a, p[1], p[2]))

\* C5 amended: for a cell whose own series has no missing value among the
\* first 20 years of the duration's input array, the stored m0 is the mean of
\* that series over those first 20 years (over all years when there are at
\* most 20); it depends on no neighbouring cell and on no weight.
C5_MeanOverFirstYears ==
    pc = "done" =>
        \A f \in Stored :
            LET a == InputArray(f)
                T == Min(a.shape[1], YearCap)
                res == ret[StrKey(f)]
            IN  \A p \in (0..(a.shape[2] - 1)) \X (0..(a.shape[3] - 1)) :
                    LET own == [t \in 1..T |-> a.at[<<t - 1, p[1], p[2]>>]]
                    IN  Complete(own) => res.m0[p] = Mean(own)

\* a run on more than 20 years has stored the mean of a cell whose year 21
\* differs from its mean over the first 20 years
C5_Witness ==
    /\ pc = "done"
    /\ roi_size = 3
    /\ \E f \in Stored :
          LET a == InputArray(f)
          IN  /\ a.shape[1] > YearCap
              /\ \E p \in (0..(a.shape[2] - 1)) \X (0..(a.shape[3] - 1)) :
                    /\ Complete(SeriesOf(a, p[1], p[2]))
                    /\ ret[StrKey(f)].m0[p] # Mean(SeriesOf(a, p[1], p[2]))
                    /\ ret[StrKey(f)].m0[p] # NaN

\* ------------------------------------------------------------------- C6
\* C6: for an odd roi_size the distance matrix, once built, is 0 at
\* [center, center] with center = roi_size // 2 and nowhere else, and entry
\* [r, c] equals entry [roi_size-1-r, roi_size-1-c].
C6_DistanceMatrix ==
    (OddSize /\ pc \in {"files", "cell", "fit", "done"}) =>
        /\ 2 * center + 1 = roi_size
        /\ DOMAIN distance_array = Offsets(roi_size)
        /\ \A o \in Offsets(roi_size) :
              /\ (distance_array[o].sq = 0 <=> o = <<center, center>>)
              /\ distance_array[o] =
                   distance_array[<<roi_size - 1 - o[1], roi_size - 1 - o[2]>>]

\* the matrix of the notebook's window, roi_size = 19, has been built
C6_Witness ==
    /\ pc = "files"
    /\ roi_size = 19
    /\ distance_array[<<0, 18>>].sq = 162

\* ------------------------------------------------------------------- C7
\* C7: T1 (and T2) is the sum of t1 * weight over the set S of offsets whose
\* ratio t1 is not missing, divided by the sum of weight over the same S.
WeightedNanMean(t, len, weights) ==
    LET S == {o \in DOMAIN t : ~IsNaN(t[o])}
    IN  [k |-> "quot",
         num |-> [o \in S |-> [k |-> "prod", t |-> t[o], len |-> len,
                               w |-> weights[o]]],
         den |-> [o \in S |-> [k |-> "prod", t |-> Num(1), len |-> len,
                               w |-> weights[o]]]]

C7_PooledOverSameOffsets ==
    JustFitted =>
        /\ T1 = WeightedNanMean(Ratio(pwm_grid, 1), nc.shape[1], weight_dist)
        /\ T2 = WeightedNanMean(Ratio(pwm_grid, 2), nc.shape[1], weight_dist)

\* ------------------------------------------------------------------- C8
\* C8: for an odd roi_size and the array of spatial shape R x C that is
\* padded on line 131, the stores have shape R x C, the window entry
\* r[:, m, n] of cell (row, col) is the series of that array at
\* (row + m - center, col + n - center) when that is inside the grid and all
\* missing otherwise, the center entry is the cell's own series, and the view
\* has as many years as the array.
C8_WindowsOfPaddedGrid ==
    (OddSize /\ pc \in {"cell", "fit"}) =>
        LET a == FirstYears(InputArray(files[fidx]))
            cells == (0..(a.shape[2] - 1)) \X (0..(a.shape[3] - 1))
        IN  /\ nc.shape[1] = a.shape[1]
            /\ DOMAIN nc.base.at =
                 (0..(a.shape[1] - 1)) \X (0..(a.shape[2] + 2 * center - 1))
                                       \X (0..(a.shape[3] + 2 * center - 1))
            /\ DOMAIN g_store = cells /\ DOMAIN xi_store = cells
            /\ DOMAIN alpha_store = cells /\ DOMAIN m0_store = cells
            /\ \A p \in cells :
                  /\ Window(nc, p[1], p[2])[<<center, center>>]
                       = SeriesOf(a, p[1], p[2])
                  /\ \A o \in Offsets(roi_size) :
                        LET q == <<p[1] + o[1] - center, p[2] + o[2] - center>>
                        IN  Window(nc, p[1], p[2])[o] =
                              IF q \in cells THEN SeriesOf(a, q[1], q[2])
                              ELSE [t \in 1..a.shape[1] |-> NaN]

\* a 2 x 2 grid of two years has been padded for a 3 x 3 window
C8_Witness ==
    /\ pc = "cell"
    /\ roi_size = 3
    /\ InputArray(files[fidx]).shape = <<2, 2, 2>>
    /\ Complete(Window(nc, 1, 1)[<<0, 0>>])
    /\ ~Complete(Window(nc, 1, 1)[<<2, 2>>])

\* ------------------------------------------------------------------- C9
\* C9: fitting a cell changes nothing another cell's fit reads: at every
\* cell the distance matrix is the one built at the start, the weights a fit
\* starts from have no entry marked missing by an earlier fit, and each
\* visited cell's outputs are those of its own window alone.
C9_CellsIndependent ==
    /\ pc \in {"files", "cell", "fit", "done"} =>
          distance_array =
            [o \in Offsets(roi_size) |-> dist(<<center, center>>, o)]
    /\ pc = "fit" =>
          weight_dist = GridWeights(distance_array, WeightN, WeightTp)
    /\ (pc = "cell" /\ ~HasNextCell /\ center < roi_size) =>
          \A p \in DOMAIN g_store :
              LET r == Window(nc, p[1], p[2])
                  own == FitCell(r, GridWeights(distance_array, WeightN, WeightTp),
                                 center)
              IN  IF AnyNaN(r[<<center, center>>])
                  THEN g_store[p] = NaN /\ m0_store[p] = NaN
                  ELSE /\ g_store[p] = own.g
                       /\ xi_store[p] = own.xi
                       /\ alpha_store[p] = own.alpha
                       /\ m0_store[p] = own.m0

\* a cell of a later duration is about to be fitted after an earlier fit
\* marked weights missing
C9_Witness ==
    /\ pc = "fit"
    /\ fidx = 2
    /\ T1 # Unset
    /\ \E o \in Offsets(roi_size) : o \notin DOMAIN T1.den

\* ------------------------------------------------------------------ C10
\* C10: with n = 1 and tp = 26, for every odd roi_size with
\* 2 * center^2 < 26^2 every weight computed by weighting_f from the distance
\* matrix is strictly positive and at most 1, and is 1 exactly at the center.
C10_WeightsPositive ==
    (pc = "fit" /\ OddSize /\ 2 * center * center < WeightTp * WeightTp) =>
        \A o \in Offsets(roi_size) :
            LET w == weight_dist[o]
            IN  /\ w.k = "num"
                /\ w.den > 0
                /\ SurdSign(w.a, w.b, w.rad) > 0
                /\ SurdSign(w.a - w.den, w.b, w.rad) <= 0
                /\ (SurdSign(w.a - w.den, w.b, w.rad) = 0
                      <=> o = <<center, center>>)

\* the weights of the notebook's window, roi_size = 19, have been computed
C10_Witness ==
    /\ pc = "fit"
    /\ roi_size = 19
    /\ weight_dist[<<0, 0>>].rad = 162
====
